---- MODULE Spec2Model ----
(***************************************************************************)
(* A model of the UDP DNS forwarder of app/main.py and of the wire codec   *)
(* of app/dns.py.                                                          *)
(*                                                                         *)
(* Bytes are integers 0..255 and byte strings are sequences of them.  A    *)
(* result of an operation that can raise is a record [ok, err, ...]: err   *)
(* names the Python exception (and which raise statement) when ok is FALSE.*)
(***************************************************************************)
EXTENDS Integers, Sequences, FiniteSets, TLC

VARIABLES
    resolver,       \* main: the upstream address, or NoResolver
    running,        \* main: FALSE once the while loop has hit `break`
    received,       \* main: buf and source of the latest recvfrom (empty before the first)
    objs,           \* every OpenRequest object created so far, by identity
    open_requests,  \* main: the set open_requests (identities into objs)
    subrequests,    \* main: the dict subrequests, packet_identifier -> identity
    toResolver,     \* datagrams sent by udp_socket.sendto(..., resolver)
    toClient,       \* datagrams sent by udp_socket.sendto(..., open_request.source)
    answered,       \* indices of toResolver whose upstream reply the loop has received
    op,             \* codec: the operation applied last ("idle" before any)
    input,          \* codec: its arguments
    output          \* codec: its result

vars == <<resolver, running, received, objs, open_requests, subrequests, toResolver,
          toClient, answered, op, input, output>>

fwdVars == <<resolver, running, received, objs, open_requests, subrequests, toResolver,
             toClient, answered>>

codecVars == <<op, input, output>>

(***************************************************************************)
(* Bounds of the model.                                                    *)
(***************************************************************************)
\* Datagrams a client sends to the server in one run.
MaxQueries == 2
\* Longest byte buffer handed to LabelSequence.unpack.
MaxBuf == 4
\* Longest filler prefix put before an encoded value.
MaxPrefix == 2

(***************************************************************************)
(* Sequence helpers.                                                       *)
(***************************************************************************)
Range(s) == {s[i] : i \in 1..Len(s)}

\* Python's buf[a:b] for 0 <= a, with offsets counted from 0.
Slice(buf, a, b) ==
    LET hi == IF b < Len(buf) THEN b ELSE Len(buf)
    IN  IF a >= hi THEN <<>> ELSE SubSeq(buf, a + 1, hi)

RECURSIVE Repeat(_, _)
Repeat(x, n) == IF n = 0 THEN <<>> ELSE <<x>> \o Repeat(x, n - 1)

RECURSIVE Pow2(_)
Pow2(n) == IF n = 0 THEN 1 ELSE 2 * Pow2(n - 1)

(***************************************************************************)
(* Integer helpers: Python's a | b, a & b and int.from_bytes / to_bytes on *)
(* non-negative integers.                                                  *)
(*                                                                         *)
(* Throughout, an intermediate result is bound as x \in {e}, and           *)
(* Only({f(x) : x \in {e}}) is f(e) with e evaluated once.                 *)
(***************************************************************************)
Only(S) == CHOOSE x \in S : TRUE

RECURSIVE BitOr(_, _)
BitOr(a, b) ==
    IF a = 0 THEN b
    ELSE IF b = 0 THEN a
    ELSE 2 * BitOr(a \div 2, b \div 2) + (IF a % 2 = 1 \/ b % 2 = 1 THEN 1 ELSE 0)

RECURSIVE BitAnd(_, _)
BitAnd(a, b) ==
    IF a = 0 \/ b = 0 THEN 0
    ELSE 2 * BitAnd(a \div 2, b \div 2) + (IF a % 2 = 1 /\ b % 2 = 1 THEN 1 ELSE 0)

\* The first k bytes of `bytes` as a big-endian unsigned integer.
RECURSIVE IntFromFirst(_, _)
IntFromFirst(bytes, k) ==
    IF k = 0 THEN 0 ELSE 256 * IntFromFirst(bytes, k - 1) + bytes[k]

\* int.from_bytes(bytes): big endian, unsigned; 0 for the empty string.
IntFromBytes(bytes) == IntFromFirst(bytes, Len(bytes))

\* n.to_bytes(2) for 0 <= n < 2^16.
U16Bytes(n) == <<n \div 256, n % 256>>

(***************************************************************************)
(* dns.py: the bit-field codec and Header.                                 *)
(***************************************************************************)
\* The fields of the Header dataclass, in declaration order, with the width
\* each bit_field(...) gives.
HeaderFields ==
    << [name |-> "packet_identifier",       width |-> 16],
       [name |-> "query_response",          width |-> 1],
       [name |-> "operation_code",          width |-> 4],
       [name |-> "authoritative_answer",    width |-> 1],
       [name |-> "truncation",              width |-> 1],
       [name |-> "recursion_desired",       width |-> 1],
       [name |-> "recursion_available",     width |-> 1],
       [name |-> "reserved",                width |-> 3],
       [name |-> "response_code",           width |-> 4],
       [name |-> "question_count",          width |-> 16],
       [name |-> "answer_record_count",     width |-> 16],
       [name |-> "authority_record_count",  width |-> 16],
       [name |-> "additional_record_count", width |-> 16] >>

\* A raised exception.
Raise(e) == [ok |-> FALSE, err |-> e]

\* A faulty _check_bit_fields that forgets the upper bound.
OutOfBoundsNoUpper(value, width) == value < 0

\* The test of _check_bit_fields on one value: TRUE when it raises.
OutOfBounds(value, width) == value < 0 \/ value > Pow2(width) - 1

\* _check_bit_fields over fields i..Len(fields): the first field out of
\* bounds raises ValueError.
RECURSIVE check_bit_fields(_, _, _)
check_bit_fields(obj, fields, i) ==
    IF i > Len(fields) THEN [ok |-> TRUE, err |-> "none"]
    ELSE IF OutOfBounds(obj[fields[i].name], fields[i].width)
         THEN Raise("ValueError: out of bounds")
         ELSE check_bit_fields(obj, fields, i + 1)

\* Header(**h): the dataclass constructor followed by BitField.__post_init__.
HeaderNew(h) ==
    Only({ IF chk.ok THEN [ok |-> TRUE, err |-> "none", value |-> h]
                     ELSE [ok |-> FALSE, err |-> chk.err, value |-> <<>>] :
           chk \in {check_bit_fields(h, HeaderFields, 1)} })

\* BitField.total_bytes for Header: ceil(total width / 8).
RECURSIVE TotalWidth(_, _)
TotalWidth(fields, i) ==
    IF i > Len(fields) THEN 0 ELSE fields[i].width + TotalWidth(fields, i + 1)

total_bytes == (TotalWidth(HeaderFields, 1) + 7) \div 8

\* The inner while loop of BitField.unpack: read bytes until the rolling
\* integer holds at least `width` bits.  st = [temp_value, current_width, offset].
RECURSIVE UnpackGrab(_, _, _)
UnpackGrab(buf, st, width) ==
    IF st.current_width < width
    THEN Only({ UnpackGrab(buf, next, width) :
                next \in {[temp_value    |-> BitOr(st.temp_value * 256, buf[st.offset + 1]),
                           current_width |-> st.current_width + 8,
                           offset        |-> st.offset + 1]} })
    ELSE st

\* The top `width` bits of the rolling integer (the shift of BitField.unpack).
UnpackShift(st, width) == st.temp_value \div Pow2(st.current_width - width)

\* One pass of the for loop of BitField.unpack: the field's value goes into
\* result, and its bits are masked away from the rolling integer.
UnpackField(field, buf, st, result) ==
    Only({ [result |-> result @@ (field.name :> UnpackShift(g, field.width)),
            st     |-> [temp_value    |-> BitAnd(g.temp_value,
                                                 Pow2(g.current_width - field.width) - 1),
                        current_width |-> g.current_width - field.width,
                        offset        |-> g.offset]] :
           g \in {UnpackGrab(buf, st, field.width)} })

\* The for loop of BitField.unpack over fields i..Len(fields).
RECURSIVE UnpackFields(_, _, _, _, _)
UnpackFields(fields, i, buf, st, result) ==
    IF i > Len(fields) THEN [result |-> result, offset |-> st.offset]
    ELSE Only({ UnpackFields(fields, i + 1, buf, u.st, u.result) :
                u \in {UnpackField(fields[i], buf, st, result)} })

\* The length test of BitField.unpack: TRUE when it raises.
BufferTooShort(buf, offset) == Len(Slice(buf, offset, Len(buf))) < total_bytes

\* A failed unpack.
UnpackError(e) == [ok |-> FALSE, err |-> e, value |-> <<>>, offset |-> 0]

\* Header.unpack(buf, offset).
HeaderUnpack(buf, offset) ==
    IF BufferTooShort(buf, offset)
    THEN UnpackError("ValueError: buffer too short")
    ELSE Only({ Only({ IF h.ok THEN [ok |-> TRUE, err |-> "none", value |-> h.value,
                                     offset |-> u.offset]
                               ELSE UnpackError(h.err) :
                       h \in {HeaderNew(u.result)} }) :
                u \in {UnpackFields(HeaderFields, 1, buf,
                                    [temp_value |-> 0, current_width |-> 0, offset |-> offset],
                                    <<>>)} })

\* The inner while loop of BitField.pack: move whole bytes from the rolling
\* integer to the result.  st = [value, current_width, result].
RECURSIVE PackFlush(_)
PackFlush(st) ==
    IF st.current_width >= 8
    THEN Only({ PackFlush(next) :
                next \in {[value         |-> BitAnd(st.value, Pow2(st.current_width - 8) - 1),
                           current_width |-> st.current_width - 8,
                           result        |-> Append(st.result,
                                                    st.value \div Pow2(st.current_width - 8))]} })
    ELSE st

\* A faulty BitField.pack that appends a field below the bits already there.
PackAppendLowFirst(value, bits, width) == BitOr(value, bits * Pow2(width))

\* Appending one bit field to the rolling integer of BitField.pack.
PackAppend(value, bits, width) == BitOr(value * Pow2(width), bits)

\* The for loop of BitField.pack over fields i..Len(fields).
RECURSIVE PackFields(_, _, _, _)
PackFields(obj, fields, i, st) ==
    IF i > Len(fields) THEN st
    ELSE Only({ PackFields(obj, fields, i + 1, next) :
                next \in {PackFlush([value         |-> PackAppend(st.value,
                                                                  obj[fields[i].name],
                                                                  fields[i].width),
                                     current_width |-> st.current_width + fields[i].width,
                                     result        |-> st.result])} })

\* Header.pack().
HeaderPack(h) ==
    Only({ IF st.current_width > 0
           THEN Append(st.result, st.value * Pow2(8 - st.current_width))
           ELSE st.result :
           st \in {PackFields(h, HeaderFields, 1,
                              [value |-> 0, current_width |-> 0, result |-> <<>>])} })

\* dataclasses.replace(header, ...) builds a new Header from the changed
\* fields; the fields given here are always within their widths.
HeaderReplace(h, changes) ==
    [f \in DOMAIN h |-> IF f \in DOMAIN changes THEN changes[f] ELSE h[f]]

(***************************************************************************)
(* dns.py: LabelSequence.                                                  *)
(***************************************************************************)
IsLetter(b) == b \in 65..90 \/ b \in 97..122

IsDigit(b) == b \in 48..57

IsHyphen(b) == b = 45

\* re.fullmatch(rb'[A-Za-z]([A-Za-z0-9-]*[A-Za-z])?', label) is not None.
LabelMatches(label) ==
    /\ Len(label) >= 1
    /\ IsLetter(label[1])
    /\ IsLetter(label[Len(label)])
    /\ \A i \in 2..(Len(label) - 1) :
           IsLetter(label[i]) \/ IsDigit(label[i]) \/ IsHyphen(label[i])

\* A LabelSequence.__new__ that validates nothing.
CheckLabelsNone(labels, i) == [ok |-> TRUE, err |-> "none"]

\* The for loop of LabelSequence.__new__ over labels i..Len(labels).
RECURSIVE CheckLabels(_, _)
CheckLabels(labels, i) ==
    IF i > Len(labels) THEN [ok |-> TRUE, err |-> "none"]
    ELSE IF Len(labels[i]) > 63 THEN Raise("ValueError: label longer than 63")
    ELSE IF ~LabelMatches(labels[i]) THEN Raise("ValueError: label does not obey DNS rules")
    ELSE CheckLabels(labels, i + 1)

\* LabelSequence(labels): tuple construction followed by the validation.
LabelSequenceNew(labels) ==
    Only({ IF chk.ok THEN [ok |-> TRUE, err |-> "none", value |-> labels]
                     ELSE [ok |-> FALSE, err |-> chk.err, value |-> <<>>] :
           chk \in {CheckLabels(labels, 1)} })

\* The end of LabelSequence.unpack: return cls(name), offset + 1.
UnpackReturn(name, offset) ==
    Only({ IF made.ok THEN [ok |-> TRUE, err |-> "none", value |-> made.value,
                            offset |-> offset + 1]
                      ELSE UnpackError(made.err) :
           made \in {LabelSequenceNew(name)} })

\* The set of offsets a nested LabelSequence.unpack starts with.  The call
\* LabelSequence.unpack(buf, pointer) passes no other_offsets, so the nested
\* call starts again from {pointer}.
NestedOffsets(other_offsets, pointer) == {pointer}

\* A pointer read without masking the two flag bits away.
PointerAtUnmasked(buf, offset) == IntFromBytes(Slice(buf, offset, offset + 2))

\* The pointer at offset: int.from_bytes(buf[offset:offset + 2]) & 0x3fff.
PointerAt(buf, offset) == BitAnd(IntFromBytes(Slice(buf, offset, offset + 2)), 16383)

\* LabelSequence.unpack(buf, offset, other_offsets), from the while loop on,
\* with `name` the labels read so far.  depth counts the frames of nested
\* calls still available: Python raises RecursionError when they run out.
RECURSIVE LabelWalk(_, _, _, _, _)
LabelWalk(buf, offset, other_offsets, name, depth) ==
    IF offset >= Len(buf) THEN UnpackError("IndexError")
    ELSE IF buf[offset + 1] = 0 THEN UnpackReturn(name, offset)
    ELSE IF BitAnd(buf[offset + 1], 192) # 0
    THEN IF BitAnd(buf[offset + 1], 192) # 192 THEN UnpackError("ValueError: unknown flags")
         ELSE Only({ IF pointer \in other_offsets
                     THEN UnpackError("ValueError: loop")
                     ELSE IF pointer > Len(buf)
                     THEN UnpackError("ValueError: pointer exceeds buffer size")
                     ELSE IF depth = 0 THEN UnpackError("RecursionError")
                     ELSE Only({ IF ~tail.ok THEN tail
                                 ELSE UnpackReturn(name \o tail.value, offset + 1) :
                                 tail \in {LabelWalk(buf, pointer,
                                                     NestedOffsets(other_offsets, pointer),
                                                     <<>>, depth - 1)} }) :
                     pointer \in {PointerAt(buf, offset)} })
    ELSE Only({ LabelWalk(buf, next, other_offsets, labels, depth) :
                next   \in {offset + buf[offset + 1] + 1},
                labels \in {Append(name, Slice(buf, offset + 1, offset + buf[offset + 1] + 1))} })

\* Nested calls a decode of buf can make without following a cycle: a chain of
\* pointers with no repeated target has at most Len(buf) + 1 targets.  A
\* datagram has at most 512 bytes and Python allows 1000 frames, so a decode
\* that runs out of frames is one that follows a cycle.
RecursionDepth(buf) == Len(buf) + 1

\* LabelSequence.unpack(buf, offset).
LabelSequenceUnpack(buf, offset) ==
    LabelWalk(buf, offset, {offset}, <<>>, RecursionDepth(buf))

\* LabelSequence.pack().
RECURSIVE LabelSequencePack(_)
LabelSequencePack(name) ==
    IF name = <<>> THEN <<0>>
    ELSE <<Len(name[1])>> \o name[1] \o LabelSequencePack(Tail(name))

(***************************************************************************)
(* dns.py: the enumerations, Question and ResourceRecord.                  *)
(***************************************************************************)
QuestionTypeValues == (1..16) \cup {252, 253, 254, 255}

QuestionClassValues == {1, 2, 3, 4, 255}

AnswerTypeValues == 1..16

AnswerClassValues == {1, 2, 3, 4}

\* Question(name, qtype, qclass): the constructor and __post_init__.  `name`
\* carries no width and is skipped by _check_bit_fields.
QuestionNew(name, qtype, qclass) ==
    IF OutOfBounds(qtype, 16) \/ OutOfBounds(qclass, 16)
    THEN [ok |-> FALSE, err |-> "ValueError: out of bounds", value |-> <<>>]
    ELSE [ok |-> TRUE, err |-> "none",
          value |-> [name |-> name, qtype |-> qtype, qclass |-> qclass]]

\* A QuestionType(n) that accepts every number.
IsQuestionTypeAny(n) == TRUE

\* QuestionType(n) and QuestionClass(n): TRUE when the enum accepts n.
IsQuestionType(n) == n \in QuestionTypeValues

IsQuestionClass(n) == n \in QuestionClassValues

\* Question.unpack after the name n has been unpacked.
QuestionAfterName(buf, n) ==
    Only({ IF ~IsQuestionType(qtype) THEN UnpackError("ValueError: not a valid QuestionType")
           ELSE IF ~IsQuestionClass(qclass)
           THEN UnpackError("ValueError: not a valid QuestionClass")
           ELSE Only({ IF ~q.ok THEN UnpackError(q.err)
                       ELSE [ok |-> TRUE, err |-> "none", value |-> q.value,
                             offset |-> n.offset + 4] :
                       q \in {QuestionNew(n.value, qtype, qclass)} }) :
           qtype  \in {IntFromBytes(Slice(buf, n.offset, n.offset + 2))},
           qclass \in {IntFromBytes(Slice(buf, n.offset + 2, n.offset + 4))} })

\* Question.unpack(buf, offset).
QuestionUnpack(buf, offset) ==
    Only({ IF ~n.ok THEN n ELSE QuestionAfterName(buf, n) :
           n \in {LabelSequenceUnpack(buf, offset)} })

\* Question.pack().
QuestionPack(q) == LabelSequencePack(q.name) \o U16Bytes(q.qtype) \o U16Bytes(q.qclass)

\* A ttl is an integer of up to 33 bits, more than TLC's 32-bit integers
\* hold: it is kept as two limbs, ttl = hi * 2^16 + lo with 0 <= lo < 2^16.
Ttl(hi, lo) == [hi |-> hi, lo |-> lo]

\* A small non-negative integer as a ttl.
TtlOf(n) == Ttl(n \div 65536, n % 65536)

\* The test of _check_bit_fields on ttl, width 32: TRUE when it raises.
TtlOutOfBounds(ttl) == ttl.hi < 0 \/ ttl.hi > Pow2(16) - 1

\* ResourceRecord(name, atype, aclass, ttl, data): the constructor and
\* __post_init__; name and data carry no width.
ResourceRecordNew(name, atype, aclass, ttl, data) ==
    IF OutOfBounds(atype, 16) \/ OutOfBounds(aclass, 16) \/ TtlOutOfBounds(ttl)
    THEN [ok |-> FALSE, err |-> "ValueError: out of bounds", value |-> <<>>]
    ELSE [ok |-> TRUE, err |-> "none",
          value |-> [name |-> name, atype |-> atype, aclass |-> aclass,
                     ttl |-> ttl, data |-> data]]

\* int.from_bytes(bytes, signed=True) of at most 4 bytes, as a ttl.
SignedFromBytes(bytes) ==
    IF Len(bytes) <= 2
    THEN Only({ Ttl(IF v < 0 THEN 0 - 1 ELSE 0, IF v < 0 THEN v + 65536 ELSE v) :
                v \in {IntFromBytes(bytes)
                       - (IF Len(bytes) > 0 /\ bytes[1] >= 128
                          THEN Pow2(8 * Len(bytes)) ELSE 0)} })
    ELSE Ttl(IntFromFirst(bytes, Len(bytes) - 2)
             - (IF bytes[1] >= 128 THEN Pow2(8 * (Len(bytes) - 2)) ELSE 0),
             IntFromBytes(SubSeq(bytes, Len(bytes) - 1, Len(bytes))))

\* ttl.to_bytes(4, signed=True): OverflowError outside [-2^31, 2^31 - 1].
SignedToBytes(ttl) ==
    IF ttl.hi < 0 - 32768 \/ ttl.hi > 32767
    THEN [ok |-> FALSE, err |-> "OverflowError", value |-> <<>>]
    ELSE [ok |-> TRUE, err |-> "none",
          value |-> U16Bytes((ttl.hi + 65536) % 65536) \o U16Bytes(ttl.lo)]

IsAnswerType(n) == n \in AnswerTypeValues

IsAnswerClass(n) == n \in AnswerClassValues

\* ResourceRecord.unpack after the name has been unpacked, ending at offset o.
RecordAfterName(buf, name, o) ==
    Only({ IF ~IsAnswerType(atype) THEN UnpackError("ValueError: not a valid AnswerType")
           ELSE IF ~IsAnswerClass(aclass)
           THEN UnpackError("ValueError: not a valid AnswerClass")
           ELSE Only({ IF ~r.ok THEN UnpackError(r.err)
                       ELSE [ok |-> TRUE, err |-> "none", value |-> r.value,
                             offset |-> o + rdlen + 10] :
                       r \in {ResourceRecordNew(name, atype, aclass,
                                                SignedFromBytes(Slice(buf, o + 4, o + 8)),
                                                Slice(buf, o + 10, o + rdlen + 10))} }) :
           atype  \in {IntFromBytes(Slice(buf, o, o + 2))},
           aclass \in {IntFromBytes(Slice(buf, o + 2, o + 4))},
           rdlen  \in {IntFromBytes(Slice(buf, o + 8, o + 10))} })

\* ResourceRecord.unpack(buf, offset).
ResourceRecordUnpack(buf, offset) ==
    Only({ IF ~n.ok THEN n ELSE RecordAfterName(buf, n.value, n.offset) :
           n \in {LabelSequenceUnpack(buf, offset)} })

\* ResourceRecord.pack().
ResourceRecordPack(r) ==
    Only({ IF ~t.ok THEN t
           ELSE [ok |-> TRUE, err |-> "none",
                 value |-> LabelSequencePack(r.name) \o U16Bytes(r.atype)
                           \o U16Bytes(r.aclass) \o t.value
                           \o U16Bytes(Len(r.data)) \o r.data] :
           t \in {SignedToBytes(r.ttl)} })

(***************************************************************************)
(* dns.py: Packet.                                                         *)
(***************************************************************************)
\* The header Packet.__post_init__ leaves in the packet.
AutoSetHeader(header, questions, answers, auto_set_header) ==
    IF auto_set_header
    THEN HeaderReplace(header, [question_count          |-> Len(questions),
                                answer_record_count     |-> Len(answers),
                                authority_record_count  |-> 0,
                                additional_record_count |-> 0])
    ELSE header

\* Packet(header, questions, answers, auto_set_header).
PacketNew(header, questions, answers, auto_set_header) ==
    [header    |-> AutoSetHeader(header, questions, answers, auto_set_header),
     questions |-> questions,
     answers   |-> answers]

\* The for loop of Packet.unpack: `count` more questions from offset on.
RECURSIVE UnpackQuestions(_, _, _, _)
UnpackQuestions(buf, offset, count, questions) ==
    IF count = 0 THEN [ok |-> TRUE, err |-> "none", value |-> questions, offset |-> offset]
    ELSE Only({ IF ~q.ok THEN q
                ELSE Only({ UnpackQuestions(buf, q.offset, count - 1, qs) :
                            qs \in {Append(questions, q.value)} }) :
                q \in {QuestionUnpack(buf, offset)} })

\* Packet.unpack(buf): the header and header.question_count questions.  The
\* packet returned has no answers, whatever follows the questions in buf.
PacketUnpack(buf) ==
    Only({ IF ~h.ok THEN h
           ELSE Only({ IF ~qs.ok THEN qs
                       ELSE [ok |-> TRUE, err |-> "none",
                             value |-> PacketNew(h.value, qs.value, <<>>, FALSE),
                             offset |-> qs.offset] :
                       qs \in {UnpackQuestions(buf, h.offset, h.value.question_count, <<>>)} }) :
           h \in {HeaderUnpack(buf, 0)} })

RECURSIVE PackQuestions(_)
PackQuestions(questions) ==
    IF questions = <<>> THEN <<>>
    ELSE QuestionPack(questions[1]) \o PackQuestions(Tail(questions))

RECURSIVE PackRecords(_)
PackRecords(records) ==
    IF records = <<>> THEN [ok |-> TRUE, err |-> "none", value |-> <<>>]
    ELSE Only({ IF ~r.ok THEN r
                ELSE IF ~rest.ok THEN rest
                ELSE [ok |-> TRUE, err |-> "none", value |-> r.value \o rest.value] :
                r    \in {ResourceRecordPack(records[1])},
                rest \in {PackRecords(Tail(records))} })

\* Packet.pack().
PacketPack(p) ==
    Only({ IF ~rs.ok THEN rs
           ELSE [ok |-> TRUE, err |-> "none",
                 value |-> HeaderPack(p.header) \o PackQuestions(p.questions) \o rs.value] :
           rs \in {PackRecords(p.answers)} })

(***************************************************************************)
(* main.py: OpenRequest.                                                   *)
(*                                                                         *)
(* OpenRequest.answers is a dict, which keeps its keys in insertion order: *)
(* it is a sequence of [key, value] with distinct keys.  A value is <<>>   *)
(* for None and <<record>> for a ResourceRecord.                           *)
(***************************************************************************)
DictHas(d, k) == \E i \in 1..Len(d) : d[i].key = k

\* d[k] = v: an existing key keeps its place, a new key goes last.
DictSet(d, k, v) ==
    IF DictHas(d, k)
    THEN [i \in 1..Len(d) |-> IF d[i].key = k THEN [key |-> k, value |-> v] ELSE d[i]]
    ELSE Append(d, [key |-> k, value |-> v])

\* {question: None for question in questions}, from question i on.
RECURSIVE NoneSlots(_, _, _)
NoneSlots(questions, i, d) ==
    IF i > Len(questions) THEN d
    ELSE Only({ NoneSlots(questions, i + 1, next) :
                next \in {DictSet(d, questions[i], <<>>)} })

\* OpenRequest(source, request).
OpenRequestNew(source, request) ==
    [source  |-> source,
     request |-> request,
     answers |-> NoneSlots(request.questions, 1, <<>>)]

\* An is_complete with its test inverted.
is_complete_inverted(o) == \E i \in 1..Len(o.answers) : o.answers[i].value = <<>>

\* OpenRequest.is_complete.

is_complete(o) == \A i \in 1..Len(o.answers) : o.answers[i].value # <<>>

\* The key OpenRequest.add_response files an answer under: the answer's
\* atype is used for qtype and for qclass.
AnswerKey(answer) == [name |-> answer.name, qtype |-> answer.atype, qclass |-> answer.atype]

\* The for loop of OpenRequest.add_response, from answer i on.  QuestionClass
\* (answer.atype) raises ValueError for an atype that is no QuestionClass;
\* the slots assigned before it stay assigned.
RECURSIVE add_response_from(_, _, _)
add_response_from(o, answers, i) ==
    IF i > Len(answers) THEN [ok |-> TRUE, err |-> "none", value |-> o]
    ELSE IF ~IsQuestionType(answers[i].atype)
    THEN [ok |-> FALSE, err |-> "ValueError: not a valid QuestionType", value |-> o]
    ELSE IF ~IsQuestionClass(answers[i].atype)
    THEN [ok |-> FALSE, err |-> "ValueError: not a valid QuestionClass", value |-> o]
    ELSE Only({ add_response_from(next, answers, i + 1) :
                next \in {[o EXCEPT !.answers = DictSet(o.answers, AnswerKey(answers[i]),
                                                        <<answers[i]>>)]} })

\* OpenRequest.add_response(response).
add_response(o, response) == add_response_from(o, response.answers, 1)

\* tuple(answers.values()) of a complete request.
RECURSIVE DictValues(_)
DictValues(d) == IF d = <<>> THEN <<>> ELSE d[1].value \o DictValues(Tail(d))

\* A to_response that always answers NOERROR.
ResponseCodeZero(request) == 0

\* The response_code OpenRequest.to_response chooses.

ResponseCode(request) == IF request.header.operation_code = 0 THEN 0 ELSE 4

\* OpenRequest.to_response().
to_response(o) ==
    IF ~is_complete(o)
    THEN [ok |-> FALSE, err |-> "ValueError: cannot convert", value |-> <<>>]
    ELSE Only({ IF ~h.ok THEN h
                ELSE [ok |-> TRUE, err |-> "none",
                      value |-> PacketNew(h.value, o.request.questions,
                                          DictValues(o.answers), TRUE)] :
                h \in {HeaderNew(
                         [packet_identifier       |-> o.request.header.packet_identifier,
                          query_response          |-> 1,
                          operation_code          |-> o.request.header.operation_code,
                          authoritative_answer    |-> 0,
                          truncation              |-> 0,
                          recursion_desired       |-> o.request.header.recursion_desired,
                          recursion_available     |-> 0,
                          reserved                |-> 0,
                          response_code           |-> ResponseCode(o.request),
                          question_count          |-> 0,
                          answer_record_count     |-> 0,
                          authority_record_count  |-> 0,
                          additional_record_count |-> 0])} })

(***************************************************************************)
(* The datagrams the model's clients and upstream resolver send.           *)
(***************************************************************************)
NoResolver == <<>>

ResolverAddr == <<"127.0.0.1", 5353>>

\* The name ("a",) and the name ("b",).
NameA == << <<97>> >>

NameB == << <<98>> >>

QuestionA == [name |-> NameA, qtype |-> 1, qclass |-> 1]

QuestionB == [name |-> NameB, qtype |-> 1, qclass |-> 1]

\* A question whose qtype, 17, is no member of QuestionType.
QuestionBad == [name |-> NameA, qtype |-> 17, qclass |-> 1]

QueryHeader(id, opcode, rd) ==
    [packet_identifier       |-> id,
     query_response          |-> 0,
     operation_code          |-> opcode,
     authoritative_answer    |-> 0,
     truncation              |-> 0,
     recursion_desired       |-> rd,
     recursion_available     |-> 0,
     reserved                |-> 0,
     response_code           |-> 0,
     question_count          |-> 0,
     answer_record_count     |-> 0,
     authority_record_count  |-> 0,
     additional_record_count |-> 0]

\* The two clients: each has an address and the header it puts on its
\* queries (a standard query that desires recursion; a status request).
ClientA == [source |-> <<"127.0.0.1", 40001>>, header |-> QueryHeader(1234, 0, 1)]

ClientB == [source |-> <<"127.0.0.1", 40002>>, header |-> QueryHeader(Pow2(16) - 1, 2, 0)]

\* The queries the clients send: one question, two different questions, the
\* same question twice, no question, and a question the decoder refuses.
\* The second client appends an EDNS OPT record to its queries.
Queries ==
    { [client |-> ClientA, questions |-> <<QuestionA>>, additional |-> 0],
      [client |-> ClientA, questions |-> <<QuestionA, QuestionB>>, additional |-> 0],
      [client |-> ClientB, questions |-> <<QuestionB, QuestionB>>, additional |-> 1],
      [client |-> ClientB, questions |-> <<>>, additional |-> 1],
      [client |-> ClientA, questions |-> <<>>, additional |-> 0],
      [client |-> ClientB, questions |-> <<QuestionBad>>, additional |-> 1] }

\* An OPT pseudo-record: root name, type 41, UDP size 4096, no options.
OptRecord == <<0, 0, 41, 16, 0, 0, 0, 0, 0, 0, 0>>

\* The datagram of a query, as a resolver library would write it: the header
\* with its counts, the questions, and the additional records.
QueryDatagram(header, questions, additional) ==
    PacketPack(PacketNew(HeaderReplace(header,
                                       [question_count          |-> Len(questions),
                                        additional_record_count |-> additional]),
                         questions, <<>>, FALSE)).value
        \o (IF additional = 1 THEN OptRecord ELSE <<>>)

\* What random.randrange(2**16 - 1) returns lies in 0..65534; the model draws
\* from the two ends of that range.
TidChoices == {0, Pow2(16) - 2}

\* The answer the upstream gives to a question.
UpstreamAnswer(question) ==
    ResourceRecordNew(question.name, question.qtype, question.qclass,
                      TtlOf(60), <<8, 8, 8, 8>>).value

\* The upstream's reply to a forwarded packet: the same identifier and
\* question, one answer record.
UpstreamReply(packet) ==
    PacketPack(PacketNew(HeaderReplace(packet.header,
                                       [query_response |-> 1, recursion_available |-> 1]),
                         packet.questions,
                         <<UpstreamAnswer(packet.questions[1])>>,
                         TRUE)).value

\* A reply nobody asked for: its identifier, 65535, is never drawn.
StrayReply ==
    PacketPack(PacketNew(HeaderReplace(QueryHeader(Pow2(16) - 1, 0, 1),
                                       [query_response |-> 1]),
                         <<>>, <<>>, TRUE)).value

\* A forwarded packet that keeps the client's packet_identifier.
ForwardPacketSameId(request, question, id) ==
    PacketNew(request.header, <<question>>, <<>>, TRUE)

\* The packet forwarded for one question.
ForwardPacket(request, question, id) ==
    PacketNew(HeaderReplace(request.header, [packet_identifier |-> id]),
              <<question>>, <<>>, TRUE)

\* The datagram each query arrives as.
QueryBuf == [q \in Queries |-> QueryDatagram(q.client.header, q.questions, q.additional)]

\* The requests the loop decodes from the clients' datagrams.
Requests == { PacketUnpack(QueryBuf[q]).value :
              q \in {x \in Queries : PacketUnpack(QueryBuf[x]).ok} }

\* ForwardPacket for question i of a request under each identifier.
ForwardOf ==
    [r \in Requests |->
        [i \in 1..Len(r.questions) |->
            [id \in TidChoices |-> ForwardPacket(r, r.questions[i], id)]]]

\* Every packet the loop can forward.
ForwardPackets ==
    UNION { { ForwardOf[r][i][id] : i \in 1..Len(r.questions), id \in TidChoices } :
            r \in Requests }

\* packet.pack() of a forwarded packet.
ForwardData == [p \in ForwardPackets |-> PacketPack(p).value]

\* The upstream's reply to each forwarded packet.
UpstreamReplyOf == [p \in ForwardPackets |-> UpstreamReply(p)]

\* A datagram too short to hold a header.
ShortReply == <<0, 0, 128>>

\* Every datagram recvfrom can return.
Datagrams ==
    { QueryBuf[q] : q \in Queries } \cup { UpstreamReplyOf[p] : p \in ForwardPackets }
        \cup { StrayReply, ShortReply }

\* Packet.unpack(buf) of each of them.
Incoming == [buf \in Datagrams |-> PacketUnpack(buf)]

(***************************************************************************)
(* main.py: the loop of main().                                            *)
(***************************************************************************)
\* subrequests is a set of [id, oid]: the dict entry id -> OpenRequest oid.
SubHas(subs, id) == \E e \in subs : e.id = id

SubGet(subs, id) == (CHOOSE e \in subs : e.id = id).oid

\* subrequests[id] = open_request.
SubSet(subs, id, oid) == {e \in subs : e.id # id} \cup {[id |-> id, oid |-> oid]}

\* subrequests.pop(id).
SubPop(subs, id) == {e \in subs : e.id # id}

\* The loop `for question in request.questions` of the resolver branch, from
\* question i on: fw = [subs, sent] are subrequests and the datagrams sent.
RECURSIVE ForwardFrom(_, _, _, _, _)
ForwardFrom(request, ids, oid, i, fw) ==
    IF i > Len(request.questions) THEN fw
    ELSE Only({ ForwardFrom(request, ids, oid, i + 1,
                            [subs |-> SubSet(fw.subs, ids[i], oid),
                             sent |-> Append(fw.sent, [packet |-> packet,
                                                       data   |-> ForwardData[packet],
                                                       oid    |-> oid,
                                                       index  |-> i])]) :
                packet \in {ForwardOf[request][i][ids[i]]} })

\* The ttl of the default answer for the question at (0-based) index i.
DefaultTtl(i) == TtlOf(123 + 10 * i)

DefaultAnswer(question, i) ==
    ResourceRecordNew(question.name, 1, 1, DefaultTtl(i), <<1, 2, 3, 4>>).value

\* The loop `for i, question in enumerate(...)` of the branch without a
\* resolver, from (1-based) position k on.
RECURSIVE DefaultsFrom(_, _, _)
DefaultsFrom(questions, k, d) ==
    IF k > Len(questions) THEN d
    ELSE Only({ DefaultsFrom(questions, k + 1, next) :
                next \in {DictSet(d, questions[k], <<DefaultAnswer(questions[k], k - 1)>>)} })

\* objs with OpenRequest oid set to o (a new one when oid is Len(objs) + 1).
PutObj(oid, o) == IF oid > Len(objs) THEN Append(objs, o) ELSE [objs EXCEPT ![oid] = o]

\* An `except Exception` that logs the error and lets the loop go on.
BreakGoesOn == running' = TRUE

\* The iteration ends in `except Exception`: the loop breaks.
Break == running' = FALSE

\* The iteration ends and the loop goes on.
Continue == running' = TRUE

\* The response of a complete open_request is packed and sent, and the
\* request removed from open_requests (KeyError when it is not in the set).
SendResponse(oid, o, open) ==
    \E response \in {to_response(o)} :
        IF ~response.ok
        THEN /\ UNCHANGED toClient
             /\ open_requests' = open
             /\ Break
        ELSE \E packed \in {PacketPack(response.value)} :
                IF ~packed.ok
                THEN /\ UNCHANGED toClient
                     /\ open_requests' = open
                     /\ Break
                ELSE /\ toClient' = Append(toClient, [dest   |-> o.source,
                                                      packet |-> response.value,
                                                      data   |-> packed.value,
                                                      oid    |-> oid])
                     /\ open_requests' = open \ {oid}
                     /\ IF oid \in open THEN Continue
                                        ELSE Break

\* The end of an iteration that has an open_request o: `if open_request is
\* not None and open_request.is_complete`.  open is open_requests as the
\* iteration left it.
Completion(oid, o, open) ==
    /\ objs' = PutObj(oid, o)
    /\ IF is_complete(o)
       THEN SendResponse(oid, o, open)
       ELSE /\ UNCHANGED toClient
            /\ open_requests' = open
            /\ Continue

\* The client branch: OpenRequest(source, request) is added to open_requests;
\* with a resolver each question is forwarded under the identifier ids[i],
\* without one each slot gets its default answer.
HandleRequest(source, request, oid) ==
    IF resolver # NoResolver
    THEN \E ids \in [1..Len(request.questions) -> TidChoices] :
            \E fw \in {ForwardFrom(request, ids, oid, 1,
                                   [subs |-> subrequests, sent |-> toResolver])} :
                /\ subrequests' = fw.subs
                /\ toResolver' = fw.sent
                /\ Completion(oid, OpenRequestNew(source, request),
                              open_requests \cup {oid})
    ELSE \E o \in {OpenRequestNew(source, request)} :
            \E filled \in {[o EXCEPT !.answers =
                                DefaultsFrom(request.questions, 1, o.answers)]} :
                /\ UNCHANGED <<subrequests, toResolver>>
                /\ Completion(oid, filled, open_requests \cup {oid})

\* An iteration that receives buf from a client at `source`.
RecvFromClient(source, buf) ==
    /\ running
    /\ Len(objs) < MaxQueries
    /\ source # resolver
    /\ received' = [buf |-> buf, source |-> source]
    /\ UNCHANGED <<resolver, codecVars, answered>>
    /\ \E incoming \in {Incoming[buf]} :
          IF ~incoming.ok
          THEN /\ Break
               /\ UNCHANGED <<objs, open_requests, subrequests, toResolver, toClient>>
          ELSE HandleRequest(source, incoming.value, Len(objs) + 1)

\* An `except KeyError` that treats the unknown identifier as any other error.
DroppedStops ==
    /\ Break
    /\ UNCHANGED <<objs, open_requests, subrequests, toClient>>

\* `except KeyError`: the response is dropped and the loop continues.
Dropped ==
    /\ Continue
    /\ UNCHANGED <<objs, open_requests, subrequests, toClient>>

\* The resolver branch: the OpenRequest the identifier is filed under is
\* popped and given the response; an identifier not filed is dropped.
HandleResponse(response) ==
    IF ~SubHas(subrequests, response.header.packet_identifier)
    THEN Dropped
    ELSE \E oid \in {SubGet(subrequests, response.header.packet_identifier)} :
            \E added \in {add_response(objs[oid], response)} :
                /\ subrequests' = SubPop(subrequests, response.header.packet_identifier)
                /\ IF ~added.ok
                   THEN /\ objs' = PutObj(oid, added.value)
                        /\ Break
                        /\ UNCHANGED <<open_requests, toClient>>
                   ELSE Completion(oid, added.value, open_requests)

\* An iteration that receives buf from the resolver's address; `replies` are
\* the forwarded datagrams buf answers.
RecvFromResolver(buf, replies) ==
    /\ running
    /\ resolver # NoResolver
    /\ received' = [buf |-> buf, source |-> resolver]
    /\ UNCHANGED <<resolver, codecVars, toResolver>>
    /\ answered' = answered \cup replies
    /\ \E incoming \in {Incoming[buf]} :
          IF ~incoming.ok
          THEN /\ Break
               /\ UNCHANGED <<objs, open_requests, subrequests, toClient>>
          ELSE HandleResponse(incoming.value)

\* A client sends one of its queries.
ClientSends ==
    /\ running
    /\ Len(objs) < MaxQueries
    /\ \E q \in Queries :
          \E buf \in {QueryBuf[q]} :
              RecvFromClient(q.client.source, buf)

\* The upstream answers a forwarded datagram it has not answered yet (any of
\* them, in any order).
ResolverReplies ==
    /\ running
    /\ resolver # NoResolver
    /\ \E i \in (1..Len(toResolver)) \ answered :
          \E buf \in {UpstreamReplyOf[toResolver[i].packet]} :
              RecvFromResolver(buf, {i})

\* The upstream sends a reply nobody asked for.
ResolverStrays ==
    /\ running
    /\ resolver # NoResolver
    /\ \E buf \in {StrayReply} : RecvFromResolver(buf, {})

\* The upstream sends a datagram that cannot be decoded.
ResolverGarbles ==
    /\ running
    /\ resolver # NoResolver
    /\ \E buf \in {ShortReply} : RecvFromResolver(buf, {})

InitForwarder ==
    /\ running = TRUE
    /\ received = [buf |-> <<>>, source |-> <<>>]
    /\ objs = <<>>
    /\ open_requests = {}
    /\ subrequests = {}
    /\ toResolver = <<>>
    /\ toClient = <<>>
    /\ answered = {}

InitCodec ==
    /\ op = "idle"
    /\ input = <<>>
    /\ output = <<>>

Init ==
    /\ resolver \in {NoResolver, ResolverAddr}
    /\ InitForwarder
    /\ InitCodec

Next == ClientSends \/ ResolverReplies \/ ResolverStrays \/ ResolverGarbles

Spec == Init /\ [][Next]_vars

(***************************************************************************)
(* The codec on its own: each step applies one operation of dns.py to an   *)
(* input drawn from the sets below and records the arguments and result.   *)
(***************************************************************************)
\* The two headers of test_dns_header_packing.
HeaderOne ==
    [packet_identifier       |-> 1234,
     query_response          |-> 1,
     operation_code          |-> 0,
     authoritative_answer    |-> 0,
     truncation              |-> 0,
     recursion_desired       |-> 0,
     recursion_available     |-> 0,
     reserved                |-> 0,
     response_code           |-> 0,
     question_count          |-> 0,
     answer_record_count     |-> 0,
     authority_record_count  |-> 0,
     additional_record_count |-> 0]

HeaderTwo ==
    [packet_identifier       |-> 4,
     query_response          |-> 1,
     operation_code          |-> 8,
     authoritative_answer    |-> 0,
     truncation              |-> 1,
     recursion_desired       |-> 0,
     recursion_available     |-> 1,
     reserved                |-> 0,
     response_code           |-> 15,
     question_count          |-> 16,
     answer_record_count     |-> 23,
     authority_record_count  |-> 42,
     additional_record_count |-> 108]

\* Values tried for a field of the given width: both ends of its range, the
\* values just outside, a middle one, and 2^(width + 1).
FieldSamples(width) ==
    {0 - 1, 0, Pow2(width - 1), Pow2(width) - 1, Pow2(width), Pow2(width + 1)}

\* Keyword arguments given to Header(...): one of the two headers with one
\* field replaced.
HeaderInputs ==
    UNION { { [base EXCEPT ![HeaderFields[i].name] = v] :
              v \in FieldSamples(HeaderFields[i].width) } :
            base \in {HeaderOne, HeaderTwo}, i \in 1..Len(HeaderFields) }

\* The headers among them that can be constructed.
Headers == { h \in HeaderInputs : HeaderNew(h).ok }

\* Byte strings of length n over the bytes in S.
RECURSIVE BytesOfLen(_, _)
BytesOfLen(S, n) ==
    IF n = 0 THEN {<<>>}
    ELSE { <<b>> \o t : b \in S, t \in BytesOfLen(S, n - 1) }

BytesUpTo(S, n) == UNION { BytesOfLen(S, k) : k \in 0..n }

\* What precedes an encoded value in a buffer: up to MaxPrefix bytes of
\* 0x42 and 0xff.
Prefixes == BytesUpTo({66, 255}, MaxPrefix)

\* Header(**fields).
HeaderConstruct ==
    /\ op = "idle"
    /\ \E fields \in HeaderInputs :
          /\ op' = "Header"
          /\ input' = fields
          /\ output' = HeaderNew(fields)
    /\ UNCHANGED fwdVars

\* h.pack(), then Header.unpack(prefix + h.pack(), len(prefix)).
HeaderRoundTrip ==
    /\ op = "idle"
    /\ \E h \in Headers, prefix \in Prefixes :
          \E packed \in {HeaderPack(h)} :
              /\ op' = "Header.pack"
              /\ input' = [header |-> h, prefix |-> prefix]
              /\ output' = [packed   |-> packed,
                            unpacked |-> HeaderUnpack(prefix \o packed, Len(prefix))]
    /\ UNCHANGED fwdVars

\* Buffers for Header.unpack: every beginning of prefix + h.pack().
HeaderBuffers ==
    UNION { { Slice(prefix \o HeaderPack(h), 0, n) : n \in 0..(Len(prefix) + total_bytes) } :
            h \in {HeaderOne, HeaderTwo}, prefix \in Prefixes }

\* Header.unpack(buf, offset).
HeaderUnpackAt ==
    /\ op = "idle"
    /\ \E buf \in HeaderBuffers, offset \in 0..(MaxPrefix + 1) :
          /\ op' = "Header.unpack"
          /\ input' = [buf |-> buf, offset |-> offset]
          /\ output' = HeaderUnpack(buf, offset)
    /\ UNCHANGED fwdVars

\* The bytes label buffers are made of: the terminator, the lengths 1 and 2
\* (also pointer targets), '0', 'a', a byte with flag bits 01 and the
\* pointer flag 0xc0.
LabelBytes == {0, 1, 2, 48, 97, 64, 192}

\* LabelSequence.unpack(buf, offset).
LabelUnpackAt ==
    /\ op = "idle"
    /\ \E buf \in BytesUpTo(LabelBytes, MaxBuf), offset \in 0..MaxPrefix :
          /\ op' = "LabelSequence.unpack"
          /\ input' = [buf |-> buf, offset |-> offset]
          /\ output' = LabelSequenceUnpack(buf, offset)
    /\ UNCHANGED fwdVars

\* The labels of a name on the wire, without the byte that ends the name.
WireLabels(name) == SubSeq(LabelSequencePack(name), 1, Len(LabelSequencePack(name)) - 1)

\* A compression pointer to offset `target`.
WirePointer(target) == <<192 + target \div 256, target % 256>>

\* LabelSequence.unpack(buf, start) on a name that ends in a pointer, with
\* buf = prefix + target name + [via labels + pointer to the target]
\*       + gap + labels + pointer + tail:
\* the pointer goes to the target name at len(prefix) or, when there is a
\* `via`, to the name right after it, which itself ends in a pointer to the
\* target.
LabelUnpackCompressed ==
    /\ op = "idle"
    /\ \E prefix \in Prefixes, target \in {<<>>, NameA, NameA \o NameB},
          via \in {<<>>, <<NameB>>}, gap \in {<<>>, <<66>>},
          labels \in {<<>>, NameB, NameB \o NameA}, tail \in {<<>>, <<255>>} :
          \E first \in {prefix \o LabelSequencePack(target)} :
              \E second \in {IF via = <<>> THEN first
                             ELSE first \o WireLabels(via[1]) \o WirePointer(Len(prefix))} :
                  \E start \in {Len(second) + Len(gap)} :
                      \E buf \in {second \o gap \o WireLabels(labels)
                                      \o WirePointer(IF via = <<>> THEN Len(prefix)
                                                                   ELSE Len(first))
                                      \o tail} :
                          /\ op' = "LabelSequence.unpack compressed"
                          /\ input' = [buf |-> buf, offset |-> start, prefix |-> prefix,
                                       target |-> target, via |-> via, gap |-> gap,
                                       labels |-> labels, tail |-> tail]
                          /\ output' = LabelSequenceUnpack(buf, start)
    /\ UNCHANGED fwdVars

\* Labels given to LabelSequence(...): one or two bytes of 'a', '0', '-', '_',
\* and labels of 63 and 64 letters.
LabelInputs ==
    (BytesUpTo({97, 48, 45, 95}, 2) \ {<<>>}) \cup {Repeat(97, 63), Repeat(97, 64)}

\* LabelSequence(labels) for up to two labels.
LabelConstruct ==
    /\ op = "idle"
    /\ \E labels \in {<<>>} \cup { <<a>> : a \in LabelInputs }
                      \cup { <<a, b>> : a \in {<<97>>, <<48>>}, b \in LabelInputs } :
          /\ op' = "LabelSequence"
          /\ input' = labels
          /\ output' = LabelSequenceNew(labels)
    /\ UNCHANGED fwdVars

\* Names put on the wire before a qtype and qclass: the root, one label, two
\* labels, and labels the grammar refuses.
WireNames == { <<>>, NameA, NameA \o NameB, << <<48>> >>, << <<97, 95>> >> }

\* 16-bit values put on the wire as qtype / atype and qclass / aclass.
WireTypes == {0, 1, 16, 17, 251, 252, 255, 256, Pow2(16) - 1}

WireClasses == {0, 1, 4, 5, 254, 255, 256, Pow2(16) - 1}

\* Question.unpack(buf, len(prefix)) on prefix + name + qtype + qclass, and
\* pack() of the question it returns.
QuestionUnpackAt ==
    /\ op = "idle"
    /\ \E name \in WireNames, qtype \in WireTypes, qclass \in WireClasses,
          prefix \in Prefixes :
          \E wire \in {LabelSequencePack(name) \o U16Bytes(qtype) \o U16Bytes(qclass)} :
              \E unpacked \in {QuestionUnpack(prefix \o wire, Len(prefix))} :
                  /\ op' = "Question.unpack"
                  /\ input' = [name |-> name, qtype |-> qtype, qclass |-> qclass,
                               prefix |-> prefix, wire |-> wire]
                  /\ output' = [unpacked |-> unpacked,
                                repacked |-> IF unpacked.ok THEN QuestionPack(unpacked.value)
                                                            ELSE <<>>]
    /\ UNCHANGED fwdVars

\* The ttls tried: the ends of the signed and of the unsigned 32-bit range,
\* the values next to them, and small values of either sign.
TtlSamples ==
    { Ttl(hi, lo) : hi \in {0 - 32769, 0 - 32768, 0 - 1, 0, 1, 32767, 32768,
                            Pow2(16) - 1, Pow2(16)},
                    lo \in {0, 60, Pow2(16) - 1} }

\* ResourceRecord(name, atype, aclass, ttl, data), then pack() of it, then
\* ResourceRecord.unpack(prefix + packed, len(prefix)).
RecordRoundTrip ==
    /\ op = "idle"
    /\ \E name \in {<<>>, NameA}, atype \in {1, 16}, aclass \in {1, 4},
          ttl \in TtlSamples, data \in {<<>>, <<1, 2, 3, 4>>}, prefix \in Prefixes :
          \E made \in {ResourceRecordNew(name, atype, aclass, ttl, data)} :
              \E packed \in {IF made.ok THEN ResourceRecordPack(made.value)
                                        ELSE Raise("not constructed")} :
                  /\ op' = "ResourceRecord"
                  /\ input' = [name |-> name, atype |-> atype, aclass |-> aclass,
                               ttl |-> ttl, data |-> data, prefix |-> prefix]
                  /\ output' = [made     |-> made,
                                packed   |-> packed,
                                unpacked |-> IF packed.ok
                                             THEN ResourceRecordUnpack(prefix \o packed.value,
                                                                       Len(prefix))
                                             ELSE UnpackError("not packed")]
    /\ UNCHANGED fwdVars

\* Questions of the requests given to OpenRequest(...), and the answer
\* records of the responses given to add_response.
SlotQuestions ==
    { [name |-> name, qtype |-> t.qtype, qclass |-> t.qclass] :
      name \in {NameA, NameB},
      t \in {[qtype |-> 1, qclass |-> 1], [qtype |-> 2, qclass |-> 1],
             [qtype |-> 2, qclass |-> 2], [qtype |-> 5, qclass |-> 1]} }

ResponseAnswers ==
    { ResourceRecordNew(name, atype, aclass, TtlOf(60), <<8, 8, 8, 8>>).value :
      name \in {NameA, NameB}, atype \in {1, 2, 5}, aclass \in {1, 2} }

\* OpenRequest(source, request).add_response(response) for a request of one
\* or two questions and a response of up to two answers.
AddResponse ==
    /\ op = "idle"
    /\ \E questions \in { <<q>> : q \in SlotQuestions }
                         \cup { <<QuestionA, q>> : q \in SlotQuestions },
          answers \in {<<>>} \cup { <<a>> : a \in ResponseAnswers }
                       \cup { <<a, b>> : a, b \in ResponseAnswers } :
          \E request \in {PacketNew(ClientA.header, questions, <<>>, TRUE)} :
              \E response \in {PacketNew(HeaderReplace(request.header, [query_response |-> 1]),
                                         questions, answers, TRUE)} :
                  /\ op' = "OpenRequest.add_response"
                  /\ input' = [request |-> request, response |-> response]
                  /\ output' = add_response(OpenRequestNew(ClientA.source, request), response)
    /\ UNCHANGED fwdVars

InitCodecOnly ==
    /\ resolver = NoResolver
    /\ InitForwarder
    /\ InitCodec

NextCodec ==
    \/ HeaderConstruct
    \/ HeaderRoundTrip
    \/ HeaderUnpackAt
    \/ LabelConstruct
    \/ LabelUnpackAt
    \/ LabelUnpackCompressed
    \/ QuestionUnpackAt
    \/ RecordRoundTrip
    \/ AddResponse

SpecCodec == InitCodecOnly /\ [][NextCodec]_vars

(***************************************************************************)
(* Properties of the forwarder loop.                                       *)
(***************************************************************************)
\* The replies (indices of toClient) sent for OpenRequest oid.
RepliesTo(oid) == { k \in 1..Len(toClient) : toClient[k].oid = oid }

\* The forwarded datagrams (indices of toResolver) of OpenRequest oid.
SubqueriesOf(oid) == { i \in 1..Len(toResolver) : toResolver[i].oid = oid }

\* No two forwarded datagrams carry the same identifier.
DistinctTids ==
    \A i, j \in 1..Len(toResolver) :
        i # j => toResolver[i].packet.header.packet_identifier
                     # toResolver[j].packet.header.packet_identifier

\* C1: with a resolver, once the loop has received the upstream's reply (one
\* answer, the subquery's identifier) to each of the n >= 1 subqueries of a
\* client query, exactly one reply has gone to that client, with the query's
\* identifier and the n upstream answers in question order.
C1_ReplyOnceAllSubqueriesAnswered ==
    (resolver # NoResolver /\ DistinctTids) =>
        \A oid \in 1..Len(objs) :
            (/\ Len(objs[oid].request.questions) >= 1
             /\ SubqueriesOf(oid) \subseteq answered)
            => /\ Cardinality(RepliesTo(oid)) = 1
               /\ \A k \in RepliesTo(oid) :
                     /\ toClient[k].dest = objs[oid].source
                     /\ toClient[k].packet.header.packet_identifier
                            = objs[oid].request.header.packet_identifier
                     /\ toClient[k].packet.answers
                            = [j \in 1..Len(objs[oid].request.questions) |->
                                  UpstreamAnswer(objs[oid].request.questions[j])]

\* Every question of OpenRequest o has a slot that holds an answer.
C2_SlotsResolved(o) ==
    \A j \in 1..Len(o.request.questions) :
        \E i \in 1..Len(o.answers) :
            o.answers[i].key = o.request.questions[j] /\ o.answers[i].value # <<>>

\* The OpenRequest a step of the loop touched: the one it created, or the one
\* whose subrequests entry it popped.
C2_Touched(oid) ==
    \/ Len(objs') = Len(objs) + 1 /\ oid = Len(objs')
    \/ Len(objs') = Len(objs) /\ \E e \in subrequests \ subrequests' : e.oid = oid

\* C2: in every iteration of the loop a reply is sent for an open request if
\* and only if the iteration touched it and all its answer slots are resolved
\* when the iteration ends; the reply goes to the request's source and its
\* questions are the questions of the client's request, in order.
C2_ReplyIffComplete ==
    [][/\ Len(toClient') \in {Len(toClient), Len(toClient) + 1}
       /\ SubSeq(toClient', 1, Len(toClient)) = toClient
       /\ \A oid \in 1..Len(objs') :
             LET sent == /\ Len(toClient') = Len(toClient) + 1
                         /\ toClient'[Len(toClient')].oid = oid
             IN  /\ sent <=> (C2_Touched(oid) /\ C2_SlotsResolved(objs'[oid]))
                 /\ sent => /\ toClient'[Len(toClient')].dest = objs'[oid].source
                            /\ toClient'[Len(toClient')].packet.questions
                                   = objs'[oid].request.questions]_vars

\* A run with a resolver in which a query without questions has been replied
\* to and a query with questions is open, unresolved and without a reply.
C2_Witness ==
    /\ resolver # NoResolver
    /\ \E a, b \in 1..Len(objs) :
          /\ RepliesTo(a) # {} /\ C2_SlotsResolved(objs[a])
          /\ RepliesTo(b) = {} /\ ~C2_SlotsResolved(objs[b])
          /\ SubqueriesOf(b) \cap answered # {}

\* The default answer the description gives question i (0-based) of a query.
C3_Expected(question, i) ==
    [name |-> question.name, atype |-> 1, aclass |-> 1,
     ttl |-> TtlOf(123 + 10 * i), data |-> <<1, 2, 3, 4>>]

\* C3: without a resolver the reply to a query of n questions carries n
\* answers, the i-th (from 0) named as question i, of type A and class IN,
\* with ttl 123 + 10*i and data 01 02 03 04.
C3_DefaultAnswerPerQuestion ==
    resolver = NoResolver =>
        \A k \in 1..Len(toClient) :
            toClient[k].packet.answers
                = [j \in 1..Len(objs[toClient[k].oid].request.questions) |->
                      C3_Expected(objs[toClient[k].oid].request.questions[j], j - 1)]

\* C4: the header of every reply sent to a client copies packet_identifier,
\* operation_code and recursion_desired from the client's request, has
\* query_response 1, authoritative_answer, truncation and recursion_available
\* 0, response_code 0 for operation_code 0 and 4 otherwise, and counts the
\* reply's questions and answers, with no authority or additional records.
C4_ReplyHeader ==
    \A k \in 1..Len(toClient) :
        LET reply   == toClient[k].packet
            request == objs[toClient[k].oid].request
        IN  /\ reply.header.packet_identifier = request.header.packet_identifier
            /\ reply.header.operation_code = request.header.operation_code
            /\ reply.header.recursion_desired = request.header.recursion_desired
            /\ reply.header.query_response = 1
            /\ reply.header.authoritative_answer = 0
            /\ reply.header.truncation = 0
            /\ reply.header.recursion_available = 0
            /\ reply.header.response_code
                   = (IF request.header.operation_code = 0 THEN 0 ELSE 4)
            /\ reply.header.question_count = Len(reply.questions)
            /\ reply.header.answer_record_count = Len(reply.answers)
            /\ reply.header.authority_record_count = 0
            /\ reply.header.additional_record_count = 0
            /\ HeaderUnpack(toClient[k].data, 0).value = reply.header

\* Replies have gone out to a standard query and to a query of another
\* operation_code, the latter with questions and an answer.
C4_Witness ==
    \E k, m \in 1..Len(toClient) :
        /\ toClient[k].packet.header.operation_code = 0
        /\ toClient[k].packet.header.response_code = 0
        /\ toClient[m].packet.header.operation_code = 2
        /\ toClient[m].packet.header.response_code = 4
        /\ toClient[m].packet.header.question_count = 2
        /\ toClient[m].packet.header.answer_record_count = 1

(***************************************************************************)
(* Properties of the codec.                                                *)
(***************************************************************************)
\* Every label of a name obeys the grammar and is at most 63 bytes long.
ObeysGrammar(name) ==
    \A i \in 1..Len(name) : Len(name[i]) <= 63 /\ LabelMatches(name[i])

\* C5, as stated: Question decode of a name followed by any 16-bit qtype and
\* qclass succeeds, returns the two numbers unchanged, and encoding the
\* decoded question gives back the bytes decoded.
C5_DecodesEveryTypeAndClass ==
    (op = "Question.unpack" /\ ObeysGrammar(input.name)) =>
        /\ output.unpacked.ok
        /\ output.unpacked.value.qtype = input.qtype
        /\ output.unpacked.value.qclass = input.qclass
        /\ output.repacked = input.wire

\* C5, amended: Question decode of a name followed by a qtype and a qclass
\* succeeds exactly when the qtype is a member of QuestionType (1..16,
\* 252..255) and the qclass a member of QuestionClass (1..4, 255); it then
\* returns name, qtype and qclass unchanged with the offset past the
\* question, and encoding the decoded question gives back the bytes decoded;
\* otherwise it fails with the enumeration's ValueError.
C5_DecodesMembersOnly ==
    (op = "Question.unpack" /\ ObeysGrammar(input.name)) =>
        LET member == /\ input.qtype \in (1..16) \cup (252..255)
                      /\ input.qclass \in (1..4) \cup {255}
        IN  /\ output.unpacked.ok <=> member
            /\ member =>
                  /\ output.unpacked.value
                         = [name |-> input.name, qtype |-> input.qtype,
                            qclass |-> input.qclass]
                  /\ output.unpacked.offset = Len(input.prefix) + Len(input.wire)
                  /\ output.repacked = input.wire
            /\ ~member =>
                  output.unpacked.err
                      = (IF input.qtype \in (1..16) \cup (252..255)
                         THEN "ValueError: not a valid QuestionClass"
                         ELSE "ValueError: not a valid QuestionType")

\* A question with qtype 17, no member of QuestionType, was refused after a
\* prefix of the greatest length.
C5_Witness ==
    /\ op = "Question.unpack"
    /\ input.name = NameA /\ input.qtype = 17 /\ input.qclass = 1
    /\ Len(input.prefix) = MaxPrefix
    /\ ~output.unpacked.ok

\* The labels of the uncompressed name framed in buf from offset on (each a
\* length byte 1..63 followed by that many bytes, then a zero byte), with
\* the offset after it; ok is FALSE when buf holds no such name there.
RECURSIVE FramedName(_, _, _)
FramedName(buf, offset, name) ==
    IF offset >= Len(buf) THEN [ok |-> FALSE]
    ELSE IF buf[offset + 1] = 0 THEN [ok |-> TRUE, name |-> name, offset |-> offset + 1]
    ELSE IF buf[offset + 1] > 63 \/ offset + 1 + buf[offset + 1] > Len(buf)
    THEN [ok |-> FALSE]
    ELSE FramedName(buf, offset + 1 + buf[offset + 1],
                    Append(name, SubSeq(buf, offset + 2, offset + 1 + buf[offset + 1])))

\* C6, as stated: decode of a well-framed uncompressed name succeeds whatever
\* bytes its labels hold and returns them exactly.
C6_DecodesAnyLabelBytes ==
    (op = "LabelSequence.unpack" /\ FramedName(input.buf, input.offset, <<>>).ok) =>
        /\ output.ok
        /\ output.value = FramedName(input.buf, input.offset, <<>>).name

\* C6, amended: decode applies the grammar of construction to the labels it
\* read.  Decode of a well-framed uncompressed name succeeds exactly when
\* every label obeys the grammar, and then returns the label bytes as they
\* are in the buffer and the offset after the name; otherwise it fails with
\* the ValueError of construction.  Construction from in-memory labels
\* succeeds exactly when every label is at most 63 bytes and obeys the grammar.
C6_DecodeValidatesLabels ==
    /\ (op = "LabelSequence.unpack" /\ FramedName(input.buf, input.offset, <<>>).ok) =>
          LET framed == FramedName(input.buf, input.offset, <<>>)
          IN  /\ output.ok <=> ObeysGrammar(framed.name)
              /\ output.ok => output.value = framed.name /\ output.offset = framed.offset
              /\ ~output.ok => output.err = "ValueError: label does not obey DNS rules"
    /\ op = "LabelSequence" =>
          /\ output.ok <=> ObeysGrammar(input)
          /\ output.ok => output.value = input

\* The name of one label "0", well framed at offset 1, was refused.
C6_Witness ==
    /\ op = "LabelSequence.unpack"
    /\ input.buf = <<97, 1, 48, 0>> /\ input.offset = 1
    /\ ~output.ok
    /\ output.err = "ValueError: label does not obey DNS rules"

\* TRUE when the chain of labels and two-byte pointers that starts at offset
\* reaches a pointer whose target is in `visited`: the offset the decode
\* started at and the targets of the pointers followed so far.
RECURSIVE Revisits(_, _, _)
Revisits(buf, offset, visited) ==
    IF offset >= Len(buf) \/ buf[offset + 1] = 0 THEN FALSE
    ELSE IF buf[offset + 1] >= 192
    THEN IF offset + 1 >= Len(buf) THEN FALSE
         ELSE LET target == (buf[offset + 1] - 192) * 256 + buf[offset + 2]
              IN  IF target \in visited THEN TRUE
                  ELSE IF target > Len(buf) THEN FALSE
                  ELSE Revisits(buf, target, visited \cup {target})
    ELSE IF buf[offset + 1] >= 64 THEN FALSE
    ELSE Revisits(buf, offset + 1 + buf[offset + 1], visited)

\* C7: decode of a buffer whose pointer chain re-visits an offset already
\* visited in that decode fails with the pointer-loop error.
C7_RevisitIsPointerLoop ==
    (op = "LabelSequence.unpack" /\ Revisits(input.buf, input.offset, {input.offset})) =>
        ~output.ok /\ output.err = "ValueError: loop"

\* C8: a ResourceRecord with a ttl in [-2^31, 2^31 - 1] can be constructed,
\* packs with the ttl as 4 big-endian two's-complement bytes after name,
\* atype and aclass, and unpacking prefix + packed at len(prefix) returns an
\* equal record and the offset len(prefix) + len(packed).
C8_SignedTtlRoundTrip ==
    (op = "ResourceRecord" /\ input.ttl.hi \in (0 - 32768)..32767) =>
        /\ output.made.ok
        /\ output.made.value
               = [name |-> input.name, atype |-> input.atype, aclass |-> input.aclass,
                  ttl |-> input.ttl, data |-> input.data]
        /\ output.packed.ok
        /\ LET at == Len(LabelSequencePack(input.name)) + 4
           IN  SubSeq(output.packed.value, at + 1, at + 4)
                   = U16Bytes((input.ttl.hi + 65536) % 65536) \o U16Bytes(input.ttl.lo)
        /\ output.unpacked.ok
        /\ output.unpacked.value = output.made.value
        /\ output.unpacked.offset = Len(input.prefix) + Len(output.packed.value)

\* Every field of h lies within its width.
WithinWidths(h) ==
    \A i \in 1..Len(HeaderFields) :
        h[HeaderFields[i].name] \in 0..(Pow2(HeaderFields[i].width) - 1)

\* C9: pack() of a Header is 12 bytes, the fields in declaration order from
\* the most significant bit down, and unpacking prefix + pack(h) at
\* len(prefix) returns a header equal to h and the offset len(prefix) + 12.
C9_HeaderLayoutAndRoundTrip ==
    op = "Header.pack" =>
        LET h == input.header
        IN  /\ WithinWidths(h)
            /\ Len(output.packed) = 12
            /\ output.packed
                   = << h.packet_identifier \div 256, h.packet_identifier % 256,
                        128 * h.query_response + 8 * h.operation_code
                            + 4 * h.authoritative_answer + 2 * h.truncation
                            + h.recursion_desired,
                        128 * h.recursion_available + 16 * h.reserved + h.response_code,
                        h.question_count \div 256, h.question_count % 256,
                        h.answer_record_count \div 256, h.answer_record_count % 256,
                        h.authority_record_count \div 256, h.authority_record_count % 256,
                        h.additional_record_count \div 256,
                        h.additional_record_count % 256 >>
            /\ output.unpacked.ok
            /\ output.unpacked.value = h
            /\ output.unpacked.offset = Len(input.prefix) + 12

\* A header with reserved bits set and most other fields non-zero went the
\* round after a prefix of the greatest length.
C9_Witness ==
    /\ op = "Header.pack"
    /\ Len(input.prefix) = MaxPrefix
    /\ input.header.reserved = 7
    /\ input.header.response_code = 15
    /\ input.header.additional_record_count = 108
    /\ output.unpacked.ok

\* C10: Header(...) with a field below 0 or above 2^width - 1 fails with the
\* out-of-bounds ValueError and gives no header; Header.unpack with fewer
\* than 12 bytes from the offset on fails with the buffer-too-short
\* ValueError; every header constructed or unpacked has all fields within
\* their widths.
C10_HeaderRangeAndLength ==
    /\ op = "Header" =>
          /\ output.ok <=> WithinWidths(input)
          /\ output.ok => output.value = input
          /\ ~output.ok => output.err = "ValueError: out of bounds" /\ output.value = <<>>
    /\ op = "Header.unpack" =>
          /\ Len(input.buf) - input.offset < 12 =>
                ~output.ok /\ output.err = "ValueError: buffer too short"
          /\ Len(input.buf) - input.offset >= 12 => output.ok
          /\ output.ok => WithinWidths(output.value)
    /\ op = "Header.pack" => (output.unpacked.ok => WithinWidths(output.unpacked.value))

\* A negative operation_code was refused.
C10_Witness ==
    /\ op = "Header"
    /\ input.operation_code = 0 - 1
    /\ input.packet_identifier = 4
    /\ ~output.ok

\* C11: decode of a name that ends in a pointer to a valid earlier name
\* returns the labels read before the pointer followed by the whole name
\* decoded at the pointer's target, and the offset right after the pointer's
\* second byte, wherever the target name ends; decode of a name that ends in
\* a zero byte returns the offset one past that byte.
C11_PointerConsumesTwoBytes ==
    /\ op = "LabelSequence.unpack compressed" =>
          /\ output.ok
          /\ output.value
                 = input.labels \o (IF input.via = <<>> THEN <<>> ELSE input.via[1])
                       \o input.target
          /\ output.offset = input.offset + Len(WireLabels(input.labels)) + 2
          /\ SubSeq(input.buf, output.offset - 1, output.offset)
                 = <<192, IF input.via = <<>>
                          THEN Len(input.prefix)
                          ELSE Len(input.prefix) + Len(LabelSequencePack(input.target))>>
    /\ (/\ op = "LabelSequence.unpack"
        /\ FramedName(input.buf, input.offset, <<>>).ok
        /\ output.ok) =>
          /\ output.offset = FramedName(input.buf, input.offset, <<>>).offset
          /\ input.buf[output.offset] = 0

\* A name of two labels of its own that ends in a pointer to a name that
\* ends in a pointer to a name of two labels was decoded, with bytes between
\* the names and after the pointer.
C11_Witness ==
    /\ op = "LabelSequence.unpack compressed"
    /\ input.labels = NameB \o NameA
    /\ input.via = <<NameB>>
    /\ input.target = NameA \o NameB
    /\ input.gap # <<>> /\ input.tail # <<>> /\ Len(input.prefix) = MaxPrefix
    /\ output.ok
    /\ output.value = NameB \o NameA \o NameB \o NameA \o NameB

\* C12: when handling a received datagram raises an error (the datagram
\* cannot be decoded), nothing is sent in that iteration and the loop stops;
\* once the loop has stopped no datagram is received or sent any more, so the
\* requests open at that moment stay without a reply.
C12_ErrorStopsLoop ==
    [][/\ running
       /\ ~Incoming[received'.buf].ok => ~running'
       /\ ~running' => /\ toClient' = toClient
                       /\ toResolver' = toResolver
                       /\ open_requests' = open_requests]_vars

\* The loop has stopped on an undecodable datagram from the upstream while a
\* request with an answered subquery is open and has no reply.
C12_Witness ==
    /\ ~running
    /\ received.buf = ShortReply
    /\ \E oid \in open_requests :
          /\ RepliesTo(oid) = {}
          /\ SubqueriesOf(oid) \cap answered # {}

\* The identifiers filed in subrequests.
SubKeys == { e.id : e \in subrequests }

C14_OneSubqueryPerQuestion ==
    [][/\ (/\ resolver # NoResolver
           /\ received'.source # resolver
           /\ Incoming[received'.buf].ok)
          => LET request == Incoming[received'.buf].value
                 n       == Len(request.questions)
                 new     == Len(objs')
             IN  /\ Len(objs') = Len(objs) + 1
                 /\ objs'[new].request = request
                 /\ objs'[new].source = received'.source
                 /\ Len(toResolver') = Len(toResolver) + n
                 /\ SubSeq(toResolver', 1, Len(toResolver)) = toResolver
                 /\ \A i \in 1..n :
                       LET sent == toResolver'[Len(toResolver) + i]
                           tid  == sent.packet.header.packet_identifier
                       IN  /\ sent.packet.questions = <<request.questions[i]>>
                           /\ sent.packet.answers = <<>>
                           /\ sent.packet.header
                                  = [request.header EXCEPT
                                        !.packet_identifier = tid,
                                        !.question_count = 1,
                                        !.answer_record_count = 0,
                                        !.authority_record_count = 0,
                                        !.additional_record_count = 0]
                           /\ tid \in 0..(Pow2(16) - 2)
                           /\ [id |-> tid, oid |-> new] \in subrequests'
                           /\ sent.data = HeaderPack(sent.packet.header)
                                              \o QuestionPack(request.questions[i])
       /\ \A oid \in 1..Len(objs') :
             ~C2_SlotsResolved(objs'[oid])
                 => \A k \in 1..Len(toClient') : toClient'[k].oid # oid]_vars

\* A query of two questions has been forwarded as two datagrams under two
\* identifiers, both filed for it, and no reply has gone to its client.
C14_Witness ==
    /\ resolver # NoResolver
    /\ \E oid \in 1..Len(objs) :
          /\ Len(objs[oid].request.questions) = 2
          /\ Cardinality(SubqueriesOf(oid)) = 2
          /\ Cardinality({ e \in subrequests : e.oid = oid }) = 2
          /\ RepliesTo(oid) = {}

\* The slot OpenRequest o keeps for question q: <<>> for None, or the answer.
SlotOf(o, q) == (CHOOSE e \in Range(o.answers) : e.key = q).value

\* The answers of a response (by index) that the description files under q.
C15_FiledUnder(answers, q) ==
    { i \in 1..Len(answers) :
        /\ answers[i].name = q.name
        /\ answers[i].atype = q.qtype
        /\ answers[i].atype = q.qclass }

\* C15: add_response does not fail, whatever the types and classes of the
\* answers; afterwards the slot of an original question q holds an answer
\* exactly when an answer has q's name and an atype equal to both q.qtype and
\* q.qclass (the last such answer), and the other original slots are None.
C15_AddResponseNeverFails ==
    op = "OpenRequest.add_response" =>
        /\ output.ok
        /\ \A j \in 1..Len(input.request.questions) :
              LET q     == input.request.questions[j]
                  filed == C15_FiledUnder(input.response.answers, q)
              IN  SlotOf(output.value, q)
                      = (IF filed = {} THEN <<>>
                         ELSE <<input.response.answers[CHOOSE i \in filed :
                                                          \A k \in filed : k <= i]>>)

\* The identifier of the i-th datagram forwarded upstream.
TidOf(i) == toResolver[i].packet.header.packet_identifier

\* The forwarded datagrams the upstream has not replied to yet.
InFlight == (1..Len(toResolver)) \ answered

\* C16: (while the loop runs) every subquery in flight has an identifier that
\* subrequests maps to the open request that sent it, and no two subqueries
\* in flight share an identifier; registering a subquery never replaces an
\* entry that is still awaited; and an upstream reply is never credited to an
\* open request other than the one whose subquery it answers.
C16_SubrequestsTrackInFlight ==
    /\ [](running =>
            /\ \A i \in InFlight :
                  [id |-> TidOf(i), oid |-> toResolver[i].oid] \in subrequests
            /\ \A i, j \in InFlight : i # j => TidOf(i) # TidOf(j))
    /\ [][/\ Len(toResolver') > Len(toResolver) =>
                \A e \in subrequests :
                    (\E i \in InFlight : TidOf(i) = e.id /\ toResolver[i].oid = e.oid)
                        => e \in subrequests'
          /\ \A i \in answered' \ answered :
                \A e \in subrequests : e.id = TidOf(i) => e.oid = toResolver[i].oid]_vars

====
